---- MODULE Spec2Model ----
(***************************************************************************)
(* GeoGraph (src/models/geograph.py), NodeMap and node identification      *)
(* (src/models/binary_graph_operations.py) and GeoGraphTimeline            *)
(* (src/models/geotimeline.py) as a state machine.                         *)
(*                                                                         *)
(* Geometry: a polygon is a non-empty set of unit cells <<x, y>> of a grid *)
(* with columns 0..GridW-1 and the two rows 0 and 1; cell <<x, y>> is the  *)
(* closed square [x, x+1] x [y, y+1].  With two rows the vertical gap      *)
(* between any two cells is 0, so distances are horizontal gaps.           *)
(***************************************************************************)
EXTENDS Integers, Sequences, FiniteSets, TLC

VARIABLES graphs, cache, last, ncalls, held, times, requests

vars == <<graphs, cache, last, ncalls, held, times, requests>>

-----------------------------------------------------------------------------
(* Bounds of the model *)

\* columns of the grid the input polygons are drawn from
GridW == 3
\* most rows of an input polygon table of the single-graph specification
MaxNodes == 3
\* calls made on the graph of the single-graph specification
MaxCalls == 2
\* calls made on the timeline and its graphs in the timeline specification
MaxTimelineCalls == 3

\* node indices callers pass: those of the largest input table
MaxIndex == MaxNodes - 1
\* the max_travel_distance values callers pass to add_habitat
TravelDistances == {0, 1}

Rows == {0, 1}
Cells == (0 .. GridW - 1) \X Rows
\* the input tables of the state machines hold unit squares of row 0
InputCells == (0 .. GridW - 1) \X {0}
\* the strip of unit squares that every graph of the timeline tiles
TimelineCells == << << 0, 0 >>, << 1, 0 >> >>
Labels == {1, 2}
HabitatNames == {"h", "k"}

\* an absent optional argument (final_index: int = None) is the empty set,
\* a supplied one the singleton of its value
None == {}
Some(v) == {v}
Get(opt) == CHOOSE v \in opt : TRUE

Abs(n) == IF n < 0 THEN -n ELSE n
Max(S) == CHOOSE m \in S : \A n \in S : n <= m
Min(S) == CHOOSE m \in S : \A n \in S : m <= n

-----------------------------------------------------------------------------
(* shapely / rtree operations the code calls *)

\* polygon.bounds: (minx, miny, maxx, maxy)
bounds(geom) ==
    << Min({c[1] : c \in geom}), Min({c[2] : c \in geom}),
       Max({c[1] : c \in geom}) + 1, Max({c[2] : c \in geom}) + 1 >>

\* polygon.area
area(geom) == Cardinality(geom)

\* a.intersects(b): the closed polygons share at least one point
intersects(a, b) ==
    \E p \in a, q \in b : Abs(p[1] - q[1]) <= 1 /\ Abs(p[2] - q[2]) <= 1

\* a.distance(b): the gap between the nearest cells (rows 0 and 1 touch)
distance(a, b) ==
    Min({ IF Abs(p[1] - q[1]) <= 1 THEN 0 ELSE Abs(p[1] - q[1]) - 1
          : p \in a, q \in b })

\* polygon.buffer(d).bounds
buffer_bounds(geom, d) ==
    LET b == bounds(geom) IN << b[1] - d, b[2] - d, b[3] + d, b[4] + d >>

\* nbr.intersects(polygon.buffer(d)): nbr lies within distance d of polygon
intersects_buffer(nbr, geom, d) == distance(nbr, geom) <= d

\* GeoSeries.unary_union
unary_union(geoms) == UNION geoms

\* two bounding boxes intersect (closed boxes)
boxes_intersect(b1, b2) ==
    /\ b1[1] <= b2[3] /\ b2[1] <= b1[3]
    /\ b1[2] <= b2[4] /\ b2[2] <= b1[4]

\* tree.intersection(box): ids of the index entries whose box intersects
rtree_intersection(tree, box) ==
    { e[1] : e \in { f \in tree : boxes_intersect(f[2], box) } }

-----------------------------------------------------------------------------
(* the attribute table (GeoDataFrame): a sequence of rows, in table order *)

df_index(df) == { df[i].index : i \in 1 .. Len(df) }

\* df.loc[index] / df.at[index, column]
df_row(df, index) == df[CHOOSE i \in 1 .. Len(df) : df[i].index = index]

\* the table keeping the row identifiers it came with
reset_index_kept(rows) ==
    [ i \in 1 .. Len(rows) |->
        [index |-> rows[i].index, geometry |-> rows[i].geometry,
         class_label |-> rows[i].class_label] ]

\* df.reset_index(drop=True): rows renumbered 0..n-1 in table order
reset_index(rows) ==
    [ i \in 1 .. Len(rows) |->
        [index |-> i - 1, geometry |-> rows[i].geometry,
         class_label |-> rows[i].class_label] ]

\* df.drop(node_list): without the rows labelled by node_list
df_drop(df, node_list) == SelectSeq(df, LAMBDA r : r.index \notin node_list)

\* df.loc[index] = row: overwrite the row labelled index, or append it
df_loc_set(df, row) ==
    IF row.index \in df_index(df)
    THEN [ i \in 1 .. Len(df) |-> IF df[i].index = row.index THEN row ELSE df[i] ]
    ELSE Append(df, row)

\* the table left in insertion order
sort_index_unsorted(df) == df

\* df.sort_index()
sort_index(df) == SortSeq(df, LAMBDA r, s : r.index < s.index)

\* df.last_valid_index(): the label of the last row
last_valid_index(df) == df[Len(df)].index

\* df.geometry.iloc[node_list]: rows by POSITION (0-based)
iloc_in_range(df, node_list) == \A n \in node_list : n < Len(df)
geometry_iloc(df, node_list) == { df[n + 1].geometry : n \in node_list }

-----------------------------------------------------------------------------
(* the networkx graph: node attributes and a set of edges; an edge is the  *)
(* set of its end points, so a self-loop is a singleton                    *)

node_attrs(geom, class_label) ==
    [class_label |-> class_label, bounds |-> bounds(geom), area |-> area(geom)]

\* graph.neighbors(node)
neighbors(edges, node) ==
    { m \in UNION edges : {node, m} \in edges }

\* graph.remove_nodes_from(node_list), on the edges
remove_edges_of(edges, node_list) == { e \in edges : e \cap node_list = {} }

\* restriction of a function to a subset of its domain
Restrict(f, S) == [ x \in S |-> f[x] ]

-----------------------------------------------------------------------------
(* GeoGraph *)

\* the data columns of a polygon table
BaseColumns == {"geometry", "class_label"}

\* GeoGraph._load_from_dataframe: the graph built from a polygon table
load_from_dataframe(rows, tolerance) ==
    LET df == reset_index(rows)
        geom == [ i \in df_index(df) |-> df_row(df, i).geometry ]
        tree == { << i, bounds(geom[i]) >> : i \in df_index(df) }
        nbrs(i) ==
            IF tolerance > 0
            THEN { n \in rtree_intersection(tree, buffer_bounds(geom[i], tolerance)) :
                     n # i /\ intersects_buffer(geom[n], geom[i], tolerance) }
            ELSE { n \in rtree_intersection(tree, bounds(geom[i])) :
                     n # i /\ intersects(geom[n], geom[i]) }
    IN  [ df |-> df,
          columns |-> BaseColumns,
          nodes |-> [ i \in df_index(df) |->
                        node_attrs(geom[i], df_row(df, i).class_label) ],
          edges |-> UNION { { {i, n} : n \in nbrs(i) } : i \in df_index(df) },
          rtree |-> tree,
          habitats |-> << >> ]

\* the GeoGraph as __init__ leaves it before loading: `self._graph =
\* nx.Graph()`, `self._habitats = {}`, no table and no spatial index yet
EmptyGraph ==
    [ df |-> << >>, columns |-> {}, nodes |-> << >>, edges |-> {},
      rtree |-> {}, habitats |-> << >> ]

\* the constructor without the `if tolerance < 0.0` check
GeoGraph_init_any_tolerance(data, tolerance) ==
    IF "class_label" \notin data.columns THEN [outcome |-> "ValueError", graph |-> EmptyGraph]
    ELSE IF "geometry" \notin data.columns THEN [outcome |-> "ValueError", graph |-> EmptyGraph]
    ELSE [outcome |-> "ok", graph |-> load_from_dataframe(data.rows, tolerance)]

\* GeoGraph.__init__(data, tolerance=tolerance) on a dataframe: the three
\* checks of _load_from_dataframe come before anything is built
GeoGraph_init(data, tolerance) ==
    IF tolerance < 0 THEN [outcome |-> "ValueError", graph |-> EmptyGraph]
    ELSE IF "class_label" \notin data.columns THEN [outcome |-> "ValueError", graph |-> EmptyGraph]
    ELSE IF "geometry" \notin data.columns THEN [outcome |-> "ValueError", graph |-> EmptyGraph]
    ELSE [outcome |-> "ok", graph |-> load_from_dataframe(data.rows, tolerance)]

\* merge_nodes, `if final_index is None: final_index = self.df.last_valid_index()`
default_final_index(df) == last_valid_index(df)

\* merge_nodes, the edges added last: zip_longest([final_index], adjacency_set,
\* fillvalue=final_index) pairs final_index with every neighbour, and with
\* itself when there is no neighbour
final_edges(final_index, adjacency_set) ==
    IF adjacency_set = {}
    THEN { {final_index} }
    ELSE { {final_index, a} : a \in adjacency_set }

\* merge_nodes checking node_list only
invalid_input_nodes_only(g, node_list, final_index) ==
    ~ (\A node \in node_list : node \in DOMAIN g.nodes)

\* merge_nodes, the two checks that raise ValueError
invalid_input(g, node_list, final_index) ==
    \/ ~ (\A node \in node_list : node \in DOMAIN g.nodes)
    \/ /\ final_index # None
       /\ Get(final_index) \notin node_list
       /\ Get(final_index) \in DOMAIN g.nodes

\* GeoGraph.merge_nodes(node_list, class_label, final_index)
merge_nodes(g, node_list, class_label, final_index) ==
    IF invalid_input(g, node_list, final_index)
    THEN [outcome |-> "ValueError", graph |-> g, final_index |-> None]
    ELSE
    LET final == IF final_index = None
                 THEN default_final_index(g.df) ELSE Get(final_index)
        adjacency_set ==
            UNION { neighbors(g.edges, node) : node \in node_list } \ node_list
    IN  IF ~ iloc_in_range(g.df, node_list)
        THEN [outcome |-> "IndexError", graph |-> g, final_index |-> None]
        ELSE
        LET polygon == unary_union(geometry_iloc(g.df, node_list))
            kept == DOMAIN g.nodes \ node_list
            row == [index |-> final, geometry |-> polygon,
                    class_label |-> class_label]
        IN  [ outcome |-> "ok",
              final_index |-> Some(final),
              graph |->
                [ df |-> sort_index(df_loc_set(df_drop(g.df, node_list), row)),
                  columns |-> g.columns,
                  nodes |-> (final :> node_attrs(polygon, class_label))
                            @@ Restrict(g.nodes, kept),
                  edges |-> remove_edges_of(g.edges, node_list)
                            \cup final_edges(final, adjacency_set),
                  rtree |-> g.rtree,
                  habitats |-> g.habitats ] ]

\* the distance attribute left at 0 for every edge
habitat_distance_zero(polygon, nbr_polygon) == 0

\* add_habitat, the distance attribute of an edge: 0 when the polygons
\* intersect, polygon.distance(nbr_polygon) otherwise
habitat_distance(polygon, nbr_polygon) ==
    IF intersects(nbr_polygon, polygon) THEN 0 ELSE distance(polygon, nbr_polygon)

\* GeoGraph.add_habitat(name, valid_classes, max_travel_distance)
add_habitat(g, name, valid_classes, max_travel_distance) ==
    LET valid == { n \in DOMAIN g.nodes : g.nodes[n].class_label \in valid_classes }
        geom(n) == df_row(g.df, n).geometry
        poss_neighbours(n) ==
            rtree_intersection(g.rtree, buffer_bounds(geom(n), max_travel_distance))
        edge(n, nbr) ==
            [ ends |-> {n, nbr},
              distance |-> habitat_distance(geom(n), geom(nbr)) ]
    IN  IF \E n \in valid : \E nbr \in poss_neighbours(n) : nbr \notin DOMAIN g.nodes
        THEN \* hgraph.nodes[nbr] raises; the buff_polygon column is not dropped
             [ outcome |-> "KeyError",
               graph |-> [g EXCEPT !.columns = g.columns \cup {"buff_polygon"}] ]
        ELSE [ outcome |-> "ok",
               graph |->
                 [g EXCEPT
                    !.columns = g.columns \ {"buff_polygon"},
                    !.habitats =
                      (name :>
                         [ nodes |-> Restrict(g.nodes, valid),
                           edges |->
                             { edge(n, nbr) :
                                 << n, nbr >> \in
                                   { p \in valid \X valid :
                                       /\ p[2] \in poss_neighbours(p[1])
                                       /\ intersects_buffer(geom(p[2]), geom(p[1]),
                                                            max_travel_distance) } },
                           valid_classes |-> valid_classes,
                           max_travel_distance |-> max_travel_distance ])
                      @@ g.habitats ] ]

\* the nodes reachable from the nodes S along edges
RECURSIVE reachable(_, _)
reachable(edges, S) ==
    LET T == S \cup { m \in UNION edges : \E n \in S : {n, m} \in edges }
    IN  IF T = S THEN S ELSE reachable(edges, T)

\* nx.connected_components(graph)
connected_components(nodes, edges) == { reachable(edges, {n}) : n \in nodes }

\* GeoGraph.get_graph_components(graph), graph given by its nodes and edges:
\* the node sets of the components, each with the row of the returned table
\* that was built for it, `self.df.geometry.iloc[list(comp)].unary_union`
get_graph_components(g, nodes, edges) ==
    LET components == connected_components(nodes, edges)
    IN  IF \E comp \in components : ~ iloc_in_range(g.df, comp)
        THEN [outcome |-> "IndexError", components |-> {}]
        ELSE [ outcome |-> "ok",
               components |->
                 { [ component |-> comp,
                     geometry |-> unary_union(geometry_iloc(g.df, comp)) ] :
                     comp \in components } ]

-----------------------------------------------------------------------------
(* NodeMap and node identification (binary_graph_operations.py) *)

\* a cache slot that holds nothing
NoMap == [src |-> 0, trg |-> 0, mapping |-> << >>]

\* the ascending list of a set of node ids (rtree.query(..., sort=True))
RECURSIVE sorted(_)
sorted(S) == IF S = {} THEN << >> ELSE << Min(S) >> \o sorted(S \ {Min(S)})

elems(seq) == { seq[i] : i \in 1 .. Len(seq) }

\* polygon_utils.connect_with_interior_bulk: the interiors overlap
connect_with_interior(a, b) == a \cap b # {}

\* polygon_utils.connect_with_interior_or_edge_bulk: overlap, or contact
\* along a side of a cell
connect_with_interior_or_edge(a, b) ==
    \E p \in a, q \in b : Abs(p[1] - q[1]) + Abs(p[2] - q[2]) <= 1

\* polygon_utils.connect_with_interior_or_edge_or_corner_bulk
connect_with_interior_or_edge_or_corner(a, b) == intersects(a, b)

\* the table of modes with "corner" and "interior" exchanged
have_valid_overlap_swapped(mode, a, b) ==
    CASE mode = "corner" -> connect_with_interior(a, b)
      [] mode = "edge" -> connect_with_interior_or_edge(a, b)
      [] mode = "interior" -> connect_with_interior_or_edge_or_corner(a, b)

\* _BULK_SPATIAL_IDENTIFICATION_FUNCTION[mode]
have_valid_overlap(mode, a, b) ==
    CASE mode = "corner" -> connect_with_interior_or_edge_or_corner(a, b)
      [] mode = "edge" -> connect_with_interior_or_edge(a, b)
      [] mode = "interior" -> connect_with_interior(a, b)

\* other_graph.class_label[candidate_ids], other_graph.geometry[candidate_ids]:
\* a lookup by node index in the table, an error for an index it lacks
labels_known(other_graph, candidate_ids) ==
    candidate_ids \subseteq df_index(other_graph.df)

\* identify_node(node, other_graph, mode); node is a table row
identify_node(node, other_graph, mode) ==
    LET candidate_ids == rtree_intersection(other_graph.rtree, bounds(node.geometry))
    IN  IF ~ labels_known(other_graph, candidate_ids)
        THEN [outcome |-> "KeyError", ids |-> << >>]
        ELSE [ outcome |-> "ok",
               ids |-> sorted(
                 { c \in candidate_ids :
                     /\ df_row(other_graph.df, c).class_label = node.class_label
                     /\ have_valid_overlap(mode, node.geometry,
                                           df_row(other_graph.df, c).geometry) }) ]

\* identify_graphs keeping only the nodes that found a match
identify_graphs_matched_only(gs, t1, t2, mode) ==
    LET index1 == df_index(gs[t1].df)
        found == [ i \in index1 |-> identify_node(df_row(gs[t1].df, i), gs[t2], mode) ]
    IN  IF \E i \in index1 : found[i].outcome # "ok"
        THEN [outcome |-> "KeyError", ret |-> NoMap]
        ELSE [ outcome |-> "ok",
               ret |-> [src |-> t1, trg |-> t2,
                        mapping |-> [ i \in { j \in index1 : found[j].ids # << >> }
                                        |-> found[i].ids ]] ]

\* identify_graphs(graph1, graph2, mode), graphs named by their timestamps
identify_graphs(gs, t1, t2, mode) ==
    LET index1 == df_index(gs[t1].df)
        found == [ i \in index1 |-> identify_node(df_row(gs[t1].df, i), gs[t2], mode) ]
    IN  IF \E i \in index1 : found[i].outcome # "ok"
        THEN [outcome |-> "KeyError", ret |-> NoMap]
        ELSE [ outcome |-> "ok",
               ret |-> [src |-> t1, trg |-> t2,
                        mapping |-> [ i \in index1 |-> found[i].ids ]] ]

\* NodeMap.invert(): iterates the CURRENT indices of src_graph and trg_graph
invert(gs, m) ==
    LET trg_index == df_index(gs[m.trg].df)
        src_df == gs[m.src].df
        src_seq == [ i \in 1 .. Len(src_df) |-> src_df[i].index ]
    IN  IF \/ \E s \in elems(src_seq) : s \notin DOMAIN m.mapping
           \/ \E s \in elems(src_seq) : \E t \in elems(m.mapping[s]) : t \notin trg_index
        THEN [outcome |-> "KeyError", ret |-> NoMap]
        ELSE [ outcome |-> "ok",
               ret |-> [src |-> m.trg, trg |-> m.src,
                        mapping |->
                          [ t \in trg_index |->
                              SelectSeq(src_seq, LAMBDA s : t \in elems(m.mapping[s])) ]] ]

-----------------------------------------------------------------------------
(* GeoGraphTimeline (geotimeline.py) *)

\* node_map_cache storing the inverse under the slot it was derived from
node_map_cache_wrong_slot(gs, c, time1, time2) ==
    IF c[<< time1, time2 >>] # NoMap
    THEN [outcome |-> "ok", ret |-> c[<< time1, time2 >>], cache |-> c]
    ELSE IF c[<< time2, time1 >>] # NoMap
    THEN LET inv == invert(gs, c[<< time2, time1 >>])
         IN  IF inv.outcome # "ok"
             THEN [outcome |-> inv.outcome, ret |-> NoMap, cache |-> c]
             ELSE [ outcome |-> "ok", ret |-> inv.ret,
                    cache |-> [c EXCEPT ![<< time2, time1 >>] = inv.ret] ]
    ELSE [outcome |-> "NotCachedError", ret |-> NoMap, cache |-> c]

\* GeoGraphTimeline.node_map_cache(time1, time2)
node_map_cache(gs, c, time1, time2) ==
    IF c[<< time1, time2 >>] # NoMap
    THEN [outcome |-> "ok", ret |-> c[<< time1, time2 >>], cache |-> c]
    ELSE IF c[<< time2, time1 >>] # NoMap
    THEN LET inv == invert(gs, c[<< time2, time1 >>])
         IN  IF inv.outcome # "ok"
             THEN [outcome |-> inv.outcome, ret |-> NoMap, cache |-> c]
             ELSE [ outcome |-> "ok", ret |-> inv.ret,
                    cache |-> [c EXCEPT ![<< time1, time2 >>] = inv.ret] ]
    ELSE [outcome |-> "NotCachedError", ret |-> NoMap, cache |-> c]

\* identify_graphs without the `except NotCachedError: pass`
timeline_identify_graphs_no_except(gs, c, time1, time2, use_cached) ==
    LET hit == node_map_cache(gs, c, time1, time2)
        fresh == identify_graphs(gs, time1, time2, "interior")
    IN  IF use_cached
        THEN [ outcome |-> hit.outcome, ret |-> hit.ret, cache |-> hit.cache,
               fresh_calls |-> 0 ]
        ELSE IF fresh.outcome # "ok"
        THEN [outcome |-> fresh.outcome, ret |-> NoMap, cache |-> c, fresh_calls |-> 1]
        ELSE [ outcome |-> "ok", ret |-> fresh.ret,
               cache |-> [c EXCEPT ![<< time1, time2 >>] = fresh.ret],
               fresh_calls |-> 1 ]

\* GeoGraphTimeline.identify_graphs(time1, time2, use_cached)
timeline_identify_graphs(gs, c, time1, time2, use_cached) ==
    LET hit == node_map_cache(gs, c, time1, time2)
        fresh == identify_graphs(gs, time1, time2, "interior")
    IN  IF use_cached /\ hit.outcome # "NotCachedError"
        THEN [ outcome |-> hit.outcome, ret |-> hit.ret, cache |-> hit.cache,
               fresh_calls |-> 0 ]
        ELSE IF fresh.outcome # "ok"
        THEN [outcome |-> fresh.outcome, ret |-> NoMap, cache |-> c, fresh_calls |-> 1]
        ELSE [ outcome |-> "ok", ret |-> fresh.ret,
               cache |-> [c EXCEPT ![<< time1, time2 >>] = fresh.ret],
               fresh_calls |-> 1 ]

\* GeoGraphTimeline._sort_by_time(reverse): the keys of _graphs re-inserted
\* in sorted order
sort_by_time(ts, reverse) ==
    IF reverse THEN SortSeq(ts, LAMBDA a, b : a > b)
    ELSE SortSeq(ts, LAMBDA a, b : a < b)

\* GeoGraphTimeline._load_from_sequence(graph_list), on the graphs' times:
\* the dict is filled from the list sorted by time
load_from_sequence(graph_list) == SortSeq(graph_list, LAMBDA a, b : a < b)

\* the dict kept in the order it was given in
load_from_dict_unsorted(graph_dict) == graph_dict

\* GeoGraphTimeline._load_from_dict(graph_dict), on the dict's keys
load_from_dict(graph_dict) == sort_by_time(graph_dict, FALSE)

\* GeoGraphTimeline.timestack(use_cached), from the i-th timestamp on: one
\* identify_graphs call per consecutive pair, each on the cache the one
\* before it left; an exception ends the loop
RECURSIVE timestack_from(_, _, _, _, _)
timestack_from(gs, c, ts, i, use_cached) ==
    IF i >= Len(ts)
    THEN [outcome |-> "ok", rets |-> << >>, cache |-> c]
    ELSE LET r == timeline_identify_graphs(gs, c, ts[i], ts[i + 1], use_cached)
         IN  IF r.outcome # "ok"
             THEN [outcome |-> r.outcome, rets |-> << >>, cache |-> r.cache]
             ELSE LET rest == timestack_from(gs, r.cache, ts, i + 1, use_cached)
                  IN  [ outcome |-> rest.outcome,
                        rets |-> IF rest.outcome = "ok"
                                 THEN << r.ret >> \o rest.rets ELSE << >>,
                        cache |-> rest.cache ]

\* GeoGraphTimeline.timestack(use_cached)
timestack(gs, c, ts, use_cached) == timestack_from(gs, c, ts, 1, use_cached)

\* GeoGraphTimeline.empty_node_map_cache()
empty_node_map_cache(c) == [ k \in DOMAIN c |-> NoMap ]

-----------------------------------------------------------------------------
(* State: graphs[t] is the GeoGraph at timestamp t, cache the timeline's   *)
(* _node_map_cache, last the most recent call (which call, how it ended    *)
(* and, for one that succeeded, its arguments and result), ncalls the      *)
(* number of calls made so far, held the NodeMap a caller of               *)
(* binary_graph_operations.identify_graphs got back and still holds, times *)
(* the timestamps of the timeline in the order its _graphs dict keeps them, *)
(* requests the timeline.identify_graphs calls in flight, one per thread.   *)

\* the default `tolerance: float = 0.0` of GeoGraph.__init__
DefaultTolerance == 0

NodeIds == 0 .. MaxIndex
TimelineIds == 0 .. Len(TimelineCells)
Times == {1, 2}

\* polygon tables of n rows: one unit square per row, left to right
InputTables(n) ==
    { rows \in [ 1 .. n -> [geometry : { {c} : c \in InputCells }, class_label : Labels] ] :
        \A i, j \in 1 .. n : i < j =>
            Min({c[1] : c \in rows[i].geometry}) < Min({c[1] : c \in rows[j].geometry}) }

\* polygon tables that tile the strip: one row per unit square, any labels
StripTables ==
    { [ i \in DOMAIN TimelineCells |->
          [geometry |-> { TimelineCells[i] }, class_label |-> labels[i]] ] :
        labels \in [ DOMAIN TimelineCells -> Labels ] }

NoCall ==
    [ op |-> "init", time |-> 0, node_list |-> {}, class_label |-> 0,
      final_index |-> None,
      new_index |-> None, time1 |-> 0, time2 |-> 0, use_cached |-> FALSE,
      outcome |-> "ok", ret |-> NoMap, fresh_calls |-> 0,
      mode |-> "", node |-> None, ids |-> << >>, arg |-> NoMap, rets |-> << >>,
      data |-> << >>, tolerance |-> 0, graph_name |-> "", components |-> {} ]

\* GeoGraph.__init__ on a dataframe, one graph
InitGraph ==
    /\ \E n \in 1 .. MaxNodes : \E rows \in InputTables(n) :
          graphs = [ t \in {1} |-> load_from_dataframe(rows, DefaultTolerance) ]
    /\ cache = [ k \in {1} \X {1} |-> NoMap ]
    /\ last = NoCall
    /\ ncalls = 0
    /\ held = NoMap
    /\ times = << 1 >>
    /\ requests = << >>

\* GeoGraphTimeline.__init__ on two graphs
InitTimeline ==
    /\ \E tables \in [ Times -> StripTables ] :
          graphs = [ t \in Times |-> load_from_dataframe(tables[t], DefaultTolerance) ]
    /\ cache = [ k \in Times \X Times |-> NoMap ]
    /\ last = NoCall
    /\ ncalls = 0
    /\ held = NoMap
    /\ times = load_from_sequence(<< 1, 2 >>)
    /\ requests = << >>

\* self[t].merge_nodes(node_list, class_label, final_index)
MergeNodes(t, node_list, class_label, final_index) ==
    /\ \E r \in { merge_nodes(graphs[t], node_list, class_label, final_index) } :
        /\ ncalls' = ncalls + 1
        /\ graphs' = [graphs EXCEPT ![t] = r.graph]
        /\ last' = IF r.outcome = "ok"
                    THEN [NoCall EXCEPT
                            !.op = "merge_nodes", !.time = t,
                            !.node_list = node_list,
                            !.class_label = class_label,
                            !.final_index = final_index,
                            !.new_index = r.final_index]
                    ELSE [NoCall EXCEPT
                            !.op = "merge_nodes", !.time = t,
                            !.outcome = r.outcome]
        /\ UNCHANGED << cache, held, times, requests >>

\* self[t].add_habitat(name, valid_classes, max_travel_distance)
AddHabitat(t, name, valid_classes, max_travel_distance) ==
    /\ \E r \in { add_habitat(graphs[t], name, valid_classes, max_travel_distance) } :
        /\ ncalls' = ncalls + 1
        /\ graphs' = [graphs EXCEPT ![t] = r.graph]
        /\ last' = [NoCall EXCEPT
                      !.op = "add_habitat", !.time = t, !.outcome = r.outcome]
        /\ UNCHANGED << cache, held, times, requests >>

\* timeline.identify_graphs(time1, time2, use_cached)
IdentifyGraphs(time1, time2, use_cached) ==
    /\ \E r \in { timeline_identify_graphs(graphs, cache, time1, time2, use_cached) } :
        /\ ncalls' = ncalls + 1
        /\ cache' = r.cache
        /\ last' = [NoCall EXCEPT
                      !.op = "identify_graphs", !.time1 = time1, !.time2 = time2,
                      !.use_cached = use_cached, !.outcome = r.outcome,
                      !.ret = r.ret, !.fresh_calls = r.fresh_calls]
        /\ UNCHANGED << graphs, held, times, requests >>

\* timeline.empty_node_map_cache()
EmptyNodeMapCache ==
    /\ ncalls' = ncalls + 1
    /\ cache' = empty_node_map_cache(cache)
    /\ last' = [NoCall EXCEPT !.op = "empty_node_map_cache"]
    /\ UNCHANGED << graphs, held, times, requests >>

MergeArgs(ids) == (SUBSET ids \ {{}}) \X Labels \X ({None} \cup { Some(i) : i \in ids })
\* the valid_classes callers pass to add_habitat: class 1 alone or with others
ValidClassSets == { S \in SUBSET Labels : 1 \in S }
HabitatArgs == HabitatNames \X ValidClassSets \X TravelDistances

NextGraph ==
    \/ \E a \in MergeArgs(NodeIds) :
          ncalls < MaxCalls /\ MergeNodes(1, a[1], a[2], a[3])
    \/ \E a \in HabitatArgs :
          ncalls < MaxCalls /\ AddHabitat(1, a[1], a[2], a[3])

NextTimeline ==
    \/ \E t \in Times : \E a \in MergeArgs(TimelineIds) :
          ncalls < MaxTimelineCalls /\ MergeNodes(t, a[1], a[2], a[3])
    \/ \E t1, t2 \in Times : \E u \in BOOLEAN :
          ncalls < MaxTimelineCalls /\ IdentifyGraphs(t1, t2, u)
    \/ ncalls < MaxTimelineCalls /\ EmptyNodeMapCache

\* one GeoGraph under merge_nodes and add_habitat
Spec == InitGraph /\ [][NextGraph]_vars

\* a timeline of two graphs under identify_graphs, empty_node_map_cache and
\* merge_nodes on its graphs
SpecTimeline == InitTimeline /\ [][NextTimeline]_vars

-----------------------------------------------------------------------------
(* Two graphs under the operations of binary_graph_operations.py *)

\* merge_nodes calls made on the two graphs
MaxIdentifyMerges == 1

Modes == {"corner", "edge", "interior"}

\* the unit squares of the two graphs: those of the first share a corner
\* only, those of the second a side; each square of the first coincides
\* with, or touches at a side or at a corner, the squares of the second
IdentifyCells ==
    << << << 0, 0 >>, << 1, 1 >> >>,
       << << 0, 0 >>, << 1, 0 >> >> >>

IdentifyTables(t) ==
    { [ i \in DOMAIN IdentifyCells[t] |->
          [geometry |-> { IdentifyCells[t][i] }, class_label |-> labels[i]] ] :
        labels \in [ DOMAIN IdentifyCells[t] -> Labels ] }

IdentifyIds == 0 .. Len(IdentifyCells[1])

\* the merge_nodes calls made on the two graphs: final_index left out, or
\* the first index the tables do not use
IdentifyMergeArgs ==
    { a \in MergeArgs(IdentifyIds) :
        a[3] \in {None, Some(Len(IdentifyCells[1]))} }

\* two GeoGraphs built from dataframes
InitIdentify ==
    /\ \E t1 \in IdentifyTables(1) : \E t2 \in IdentifyTables(2) :
          graphs = [ t \in Times |->
                       load_from_dataframe(IF t = 1 THEN t1 ELSE t2, DefaultTolerance) ]
    /\ cache = [ k \in Times \X Times |-> NoMap ]
    /\ last = NoCall
    /\ ncalls = 0
    /\ held = NoMap
    /\ times = << >>
    /\ requests = << >>

\* identify_node(graphs[time1].df.loc[index], graphs[time2], mode)
IdentifyNode(time1, index, time2, mode) ==
    /\ index \in df_index(graphs[time1].df)
    /\ \E r \in { identify_node(df_row(graphs[time1].df, index), graphs[time2], mode) } :
          last' = [NoCall EXCEPT
                     !.op = "identify_node", !.time1 = time1, !.time2 = time2,
                     !.node = Some(index), !.mode = mode,
                     !.outcome = r.outcome, !.ids = r.ids]
    /\ UNCHANGED << graphs, cache, ncalls, held, times, requests >>

\* held = identify_graphs(graphs[time1], graphs[time2], mode)
BinaryIdentifyGraphs(time1, time2, mode) ==
    /\ \E r \in { identify_graphs(graphs, time1, time2, mode) } :
          /\ last' = [NoCall EXCEPT
                        !.op = "identify_graphs", !.time1 = time1, !.time2 = time2,
                        !.mode = mode, !.outcome = r.outcome, !.ret = r.ret]
          /\ held' = IF r.outcome = "ok" THEN r.ret ELSE held
    /\ UNCHANGED << graphs, cache, ncalls, times, requests >>

\* held.invert()
Invert ==
    /\ held # NoMap
    /\ \E r \in { invert(graphs, held) } :
          last' = [NoCall EXCEPT
                     !.op = "invert", !.arg = held,
                     !.outcome = r.outcome, !.ret = r.ret]
    /\ UNCHANGED << graphs, cache, ncalls, held, times, requests >>

\* held.invert().invert()
InvertInvert ==
    /\ held # NoMap
    /\ \E r1 \in { invert(graphs, held) } :
          \E r \in { IF r1.outcome = "ok" THEN invert(graphs, r1.ret) ELSE r1 } :
            last' = [NoCall EXCEPT
                       !.op = "invert_invert", !.arg = held,
                       !.outcome = r.outcome, !.ret = r.ret]
    /\ UNCHANGED << graphs, cache, ncalls, held, times, requests >>

NextIdentify ==
    \/ \E t1, t2 \in Times : \E i \in IdentifyIds : \E m \in Modes :
          t1 # t2 /\ IdentifyNode(t1, i, t2, m)
    \/ \E t1, t2 \in Times : \E m \in Modes :
          t1 # t2 /\ BinaryIdentifyGraphs(t1, t2, m)
    \/ Invert
    \/ InvertInvert
    \/ \E t \in Times : \E a \in IdentifyMergeArgs :
          ncalls < MaxIdentifyMerges /\ MergeNodes(t, a[1], a[2], a[3])

\* two GeoGraphs under identify_node, identify_graphs, NodeMap.invert and
\* merge_nodes
SpecIdentify == InitIdentify /\ [][NextIdentify]_vars

-----------------------------------------------------------------------------
(* A timeline of three graphs under timestack *)

\* calls made on the timeline of three graphs and on its graphs
MaxTimestackCalls == 3

StackTimes == {1, 2, 3}

\* polygon tables of one unit square, of any class
StackTables ==
    { << [geometry |-> { TimelineCells[1] }, class_label |-> l] >> : l \in Labels }

\* the orders a list or a dict can hold the timestamps in
InputOrders(S) ==
    { seq \in [ 1 .. Cardinality(S) -> S ] :
        \A i, j \in DOMAIN seq : i # j => seq[i] # seq[j] }

\* GeoGraphTimeline.__init__ on a list or on a dict of three graphs
InitTimestack ==
    /\ \E tables \in [ StackTimes -> StackTables ] :
          graphs = [ t \in StackTimes |-> load_from_dataframe(tables[t], DefaultTolerance) ]
    /\ \E data \in InputOrders(StackTimes) : \E is_list \in BOOLEAN :
          times = IF is_list THEN load_from_sequence(data) ELSE load_from_dict(data)
    /\ cache = [ k \in StackTimes \X StackTimes |-> NoMap ]
    /\ last = NoCall
    /\ ncalls = 0
    /\ held = NoMap
    /\ requests = << >>

\* timeline.timestack(use_cached)
Timestack(use_cached) ==
    /\ \E r \in { timestack(graphs, cache, times, use_cached) } :
        /\ ncalls' = ncalls + 1
        /\ cache' = r.cache
        /\ last' = [NoCall EXCEPT
                      !.op = "timestack", !.use_cached = use_cached,
                      !.outcome = r.outcome, !.rets = r.rets]
    /\ UNCHANGED << graphs, held, times, requests >>

\* the merge_nodes calls made on the one-node graphs of the timeline
StackMergeArgs == MergeArgs(0 .. 1)

NextTimestack ==
    \/ \E u \in BOOLEAN :
          ncalls < MaxTimestackCalls /\ Timestack(u)
    \/ \E t1, t2 \in StackTimes : \E u \in BOOLEAN :
          ncalls < MaxTimestackCalls /\ IdentifyGraphs(t1, t2, u)
    \/ ncalls < MaxTimestackCalls /\ EmptyNodeMapCache
    \/ \E t \in StackTimes : \E a \in StackMergeArgs :
          ncalls < MaxTimestackCalls /\ MergeNodes(t, a[1], a[2], a[3])

\* a timeline of three graphs under timestack, identify_graphs,
\* empty_node_map_cache and merge_nodes on its graphs
SpecTimestack == InitTimestack /\ [][NextTimestack]_vars

-----------------------------------------------------------------------------
(* Two threads calling timeline.identify_graphs on one timeline.  A call is *)
(* taken one statement at a time: the two membership tests of              *)
(* node_map_cache, the store of the inverted map, the computation of the   *)
(* fresh map, its store, and the read of the slot that is returned.        *)

MaxRequests == 3
Procs == {1, 2}

\* a thread that has not called identify_graphs yet
NoRequest ==
    [ pc |-> "idle", time1 |-> 0, time2 |-> 0, use_cached |-> FALSE,
      local |-> NoMap, outcome |-> "ok", ret |-> NoMap, raced |-> FALSE ]

InFlight(r) == r.pc \notin {"idle", "done"}

\* the elif branch of node_map_cache storing the cached map as it is, without
\* .invert()
request_step_not_inverted(gs, c, r) ==
    LET slot == << r.time1, r.time2 >>
        reverse == << r.time2, r.time1 >>
    IN  CASE r.pc = "lookup" ->
               IF c[slot] # NoMap
               THEN [cache |-> c, request |-> [r EXCEPT !.pc = "done", !.ret = c[slot]]]
               ELSE [cache |-> c, request |-> [r EXCEPT !.pc = "lookup_reverse"]]
          [] r.pc = "lookup_reverse" ->
               IF c[reverse] # NoMap
               THEN [cache |-> c,
                     request |-> [r EXCEPT !.pc = "store_inverse", !.local = c[reverse]]]
               ELSE [cache |-> c, request |-> [r EXCEPT !.pc = "compute"]]
          [] r.pc = "store_inverse" ->
               [ cache |-> [c EXCEPT ![slot] = r.local],
                 request |-> [r EXCEPT !.pc = "done", !.ret = r.local] ]
          [] r.pc = "compute" ->
               LET fresh == identify_graphs(gs, r.time1, r.time2, "interior")
               IN  IF fresh.outcome # "ok"
                   THEN [cache |-> c,
                         request |-> [r EXCEPT !.pc = "done", !.outcome = fresh.outcome]]
                   ELSE [cache |-> c,
                         request |-> [r EXCEPT !.pc = "store", !.local = fresh.ret]]
          [] r.pc = "store" ->
               [ cache |-> [c EXCEPT ![slot] = r.local],
                 request |-> [r EXCEPT !.pc = "read"] ]
          [] r.pc = "read" ->
               IF c[slot] = NoMap
               THEN [cache |-> c,
                     request |-> [r EXCEPT !.pc = "done", !.outcome = "KeyError"]]
               ELSE [cache |-> c, request |-> [r EXCEPT !.pc = "done", !.ret = c[slot]]]

\* the next statement of a call of GeoGraphTimeline.identify_graphs:
\*   lookup          `if (time1, time2) in self._node_map_cache.keys(): return ...`
\*   lookup_reverse  `elif (time2, time1) in ...: map_from_inverse = ....invert()`,
\*                   else NotCachedError, which identify_graphs passes over
\*   store_inverse   `self._node_map_cache[(time1, time2)] = map_from_inverse`
\*                   and its return
\*   compute         `identify_graphs(self[time1], self[time2], mode="interior")`
\*   store           `self._node_map_cache[(time1, time2)] = ...`
\*   read            `return self._node_map_cache[(time1, time2)]`
request_step(gs, c, r) ==
    LET slot == << r.time1, r.time2 >>
        reverse == << r.time2, r.time1 >>
    IN  CASE r.pc = "lookup" ->
               IF c[slot] # NoMap
               THEN [cache |-> c, request |-> [r EXCEPT !.pc = "done", !.ret = c[slot]]]
               ELSE [cache |-> c, request |-> [r EXCEPT !.pc = "lookup_reverse"]]
          [] r.pc = "lookup_reverse" ->
               IF c[reverse] # NoMap
               THEN LET inv == invert(gs, c[reverse])
                    IN  IF inv.outcome # "ok"
                        THEN [cache |-> c,
                              request |-> [r EXCEPT !.pc = "done",
                                                    !.outcome = inv.outcome]]
                        ELSE [cache |-> c,
                              request |-> [r EXCEPT !.pc = "store_inverse",
                                                    !.local = inv.ret]]
               ELSE [cache |-> c, request |-> [r EXCEPT !.pc = "compute"]]
          [] r.pc = "store_inverse" ->
               [ cache |-> [c EXCEPT ![slot] = r.local],
                 request |-> [r EXCEPT !.pc = "done", !.ret = r.local] ]
          [] r.pc = "compute" ->
               LET fresh == identify_graphs(gs, r.time1, r.time2, "interior")
               IN  IF fresh.outcome # "ok"
                   THEN [cache |-> c,
                         request |-> [r EXCEPT !.pc = "done", !.outcome = fresh.outcome]]
                   ELSE [cache |-> c,
                         request |-> [r EXCEPT !.pc = "store", !.local = fresh.ret]]
          [] r.pc = "store" ->
               [ cache |-> [c EXCEPT ![slot] = r.local],
                 request |-> [r EXCEPT !.pc = "read"] ]
          [] r.pc = "read" ->
               IF c[slot] = NoMap
               THEN [cache |-> c,
                     request |-> [r EXCEPT !.pc = "done", !.outcome = "KeyError"]]
               ELSE [cache |-> c, request |-> [r EXCEPT !.pc = "done", !.ret = c[slot]]]

\* GeoGraphTimeline.__init__ on two graphs, no thread in a call yet
InitConcurrent ==
    /\ \E tables \in [ Times -> StripTables ] :
          graphs = [ t \in Times |-> load_from_dataframe(tables[t], DefaultTolerance) ]
    /\ cache = [ k \in Times \X Times |-> NoMap ]
    /\ last = NoCall
    /\ ncalls = 0
    /\ held = NoMap
    /\ times = load_from_sequence(<< 1, 2 >>)
    /\ requests = [ p \in Procs |-> NoRequest ]

\* thread p enters timeline.identify_graphs(time1, time2, use_cached); raced
\* records that another thread was inside a call for the same key meanwhile
StartRequest(p, time1, time2, use_cached) ==
    /\ ~InFlight(requests[p])
    /\ ncalls' = ncalls + 1
    /\ requests' =
          [ q \in Procs |->
              IF q = p
              THEN [NoRequest EXCEPT
                      !.pc = IF use_cached THEN "lookup" ELSE "compute",
                      !.time1 = time1, !.time2 = time2, !.use_cached = use_cached,
                      !.raced = \E o \in Procs \ {p} :
                                    /\ InFlight(requests[o])
                                    /\ requests[o].time1 = time1
                                    /\ requests[o].time2 = time2]
              ELSE IF /\ InFlight(requests[q])
                      /\ requests[q].time1 = time1 /\ requests[q].time2 = time2
              THEN [requests[q] EXCEPT !.raced = TRUE]
              ELSE requests[q] ]
    /\ UNCHANGED << graphs, cache, last, held, times >>

\* thread p executes the next statement of its call
StepRequest(p) ==
    /\ InFlight(requests[p])
    /\ \E r \in { request_step(graphs, cache, requests[p]) } :
        /\ cache' = r.cache
        /\ requests' = [requests EXCEPT ![p] = r.request]
    /\ UNCHANGED << graphs, last, ncalls, held, times >>

NextConcurrent ==
    \/ \E p \in Procs : \E t1, t2 \in Times : \E u \in BOOLEAN :
          ncalls < MaxRequests /\ StartRequest(p, t1, t2, u)
    \/ \E p \in Procs : StepRequest(p)

\* two threads calling identify_graphs on a timeline of two graphs that
\* nothing mutates
SpecConcurrent == InitConcurrent /\ [][NextConcurrent]_vars

-----------------------------------------------------------------------------
(* Construction of a GeoGraph from a polygon table: the table has row      *)
(* identifiers of its own, and may lack a column.                          *)

MaxRows == 2
Tolerances == {-1, 0, 1}

\* unit squares and dominoes of two squares side by side
ConstructPolygons ==
    { {c} : c \in Cells }
      \cup { {c, << c[1] + 1, c[2] >>} : c \in { d \in Cells : d[1] < GridW - 1 } }

\* the row identifiers a table of n rows comes with: 0..n-1, 1..n, or
\* n-1..0
InputIdentifiers(n) ==
    { [ i \in 1 .. n |-> i - 1 ], [ i \in 1 .. n |-> i ], [ i \in 1 .. n |-> n - i ] }

\* a polygon table of n rows with the columns cols; a column that is absent
\* holds nothing
ConstructTable(n, ids, polys, labels, cols) ==
    [ columns |-> cols,
      rows |-> [ i \in 1 .. n |->
                   [ index |-> ids[i],
                     geometry |-> IF "geometry" \in cols THEN polys[i] ELSE {},
                     class_label |-> IF "class_label" \in cols THEN labels[i] ELSE 0 ] ] ]

\* no GeoGraph yet
InitConstruct ==
    /\ graphs = << >>
    /\ cache = << >>
    /\ last = NoCall
    /\ ncalls = 0
    /\ held = NoMap
    /\ times = << >>
    /\ requests = << >>

\* GeoGraph(data, tolerance=tolerance)
Construct(data, tolerance) ==
    /\ \E r \in { GeoGraph_init(data, tolerance) } :
        /\ graphs' = [ t \in {1} |-> r.graph ]
        /\ last' = [NoCall EXCEPT
                      !.op = "GeoGraph", !.outcome = r.outcome,
                      !.data = data, !.tolerance = tolerance]
    /\ ncalls' = ncalls + 1
    /\ UNCHANGED << cache, held, times, requests >>

NextConstruct ==
    /\ graphs = << >>
    /\ \E n \in 1 .. MaxRows : \E ids \in InputIdentifiers(n) :
       \E polys \in [ 1 .. n -> ConstructPolygons ] : \E labels \in [ 1 .. n -> Labels ] :
       \E cols \in SUBSET BaseColumns : \E tolerance \in Tolerances :
          Construct(ConstructTable(n, ids, polys, labels, cols), tolerance)

\* one GeoGraph constructed from a polygon table
SpecConstruct == InitConstruct /\ [][NextConstruct]_vars

-----------------------------------------------------------------------------
(* One GeoGraph under merge_nodes, add_habitat and get_graph_components on *)
(* its main graph or on one of its habitats.                               *)

\* the nodes and edges of the graph a caller passes to get_graph_components:
\* self.graph, or self.habitats[name]
supplied_graph(g, name) ==
    IF name = "graph"
    THEN [nodes |-> DOMAIN g.nodes, edges |-> g.edges]
    ELSE [ nodes |-> DOMAIN g.habitats[name].nodes,
           edges |-> { e.ends : e \in g.habitats[name].edges } ]

\* self[t].get_graph_components(graph): reads only
GetGraphComponents(t, name) ==
    /\ name = "graph" \/ name \in DOMAIN graphs[t].habitats
    /\ \E r \in { get_graph_components(graphs[t], supplied_graph(graphs[t], name).nodes,
                                       supplied_graph(graphs[t], name).edges) } :
          last' = [NoCall EXCEPT
                     !.op = "get_graph_components", !.time = t,
                     !.graph_name = name, !.outcome = r.outcome,
                     !.components = r.components]
    /\ UNCHANGED << graphs, cache, ncalls, held, times, requests >>

NextComponents ==
    \/ \E a \in MergeArgs(NodeIds) :
          ncalls < MaxCalls /\ MergeNodes(1, a[1], a[2], a[3])
    \/ \E a \in HabitatArgs :
          ncalls < MaxCalls /\ AddHabitat(1, a[1], a[2], a[3])
    \/ \E name \in {"graph"} \cup HabitatNames : GetGraphComponents(1, name)

SpecComponents == InitGraph /\ [][NextComponents]_vars

-----------------------------------------------------------------------------
(* Properties *)

\* the pairs (source node, target node) a NodeMap relates
Pairs(m) ==
    UNION { { << s, t >> : t \in elems(m.mapping[s]) } : s \in DOMAIN m.mapping }

Converse(pairs) == { << p[2], p[1] >> : p \in pairs }

\* m is the inverse of n: source and target swapped, the same pairs reversed
IsInverseOf(m, n) ==
    /\ m.src = n.trg /\ m.trg = n.src
    /\ Pairs(m) = Converse(Pairs(n))

\* the step is a call of timeline.identify_graphs
IsIdentify == last'.op = "identify_graphs" /\ ncalls' = ncalls + 1
Slot == << last'.time1, last'.time2 >>
Reverse == << last'.time2, last'.time1 >>

\* the step is a call of merge_nodes that succeeded
IsMerge == last'.op = "merge_nodes" /\ last'.outcome = "ok" /\ ncalls' = ncalls + 1
Before == graphs[last'.time]
After == graphs'[last'.time]

\* C1: whenever both (t1,t2) and (t2,t1) are cached, the NodeMap under
\* (t1,t2) is the inverse of the NodeMap under (t2,t1), in every state the
\* timeline reaches by identify_graphs, empty_node_map_cache and merge_nodes.
C1_CacheInverseConsistent ==
    \A t1, t2 \in Times :
        (cache[<< t1, t2 >>] # NoMap /\ cache[<< t2, t1 >>] # NoMap)
            => IsInverseOf(cache[<< t1, t2 >>], cache[<< t2, t1 >>])

\* C2: identify_graphs(t2, t1, use_cached=True) called when (t1,t2) is
\* cached and (t2,t1) is not returns the inverse of the cached (t1,t2)
\* NodeMap, and does not invoke the fresh computation.
C2_ReverseLookupReturnsInverse ==
    [][ ( /\ IsIdentify
          /\ last'.use_cached
          /\ cache[Slot] = NoMap
          /\ cache[Reverse] # NoMap )
        => ( /\ last'.outcome = "ok"
             /\ IsInverseOf(last'.ret, cache[Reverse])
             /\ last'.fresh_calls = 0 ) ]_vars

\* C3: a call identify_graphs(t1, t2, use_cached) leaves every cache slot
\* other than (t1,t2) unchanged; when it returns, (t1,t2) holds exactly the
\* returned NodeMap; and when use_cached is true and (t1,t2) was already
\* cached, the whole cache is unchanged and the stored entry is returned.
C3_IdentifyTouchesOnlyItsSlot ==
    [][ IsIdentify
        => ( /\ \A k \in DOMAIN cache : k # Slot => cache'[k] = cache[k]
             /\ last'.outcome = "ok"
                  => (last'.ret # NoMap /\ cache'[Slot] = last'.ret)
             /\ (last'.use_cached /\ cache[Slot] # NoMap)
                  => ( /\ last'.outcome = "ok"
                       /\ cache' = cache
                       /\ last'.ret = cache[Slot] ) ) ]_vars

\* a direct cache hit has been served: the call used the cache, computed
\* nothing and the reverse slot is still empty, so it did not invert either
C3_Witness ==
    /\ last.op = "identify_graphs" /\ last.use_cached /\ last.outcome = "ok"
    /\ last.fresh_calls = 0
    /\ last.time1 # last.time2
    /\ cache[<< last.time2, last.time1 >>] = NoMap
    /\ cache[<< last.time1, last.time2 >>] = last.ret

\* C4: identify_graphs never ends with the cache-miss signal NotCachedError;
\* a lookup that finds neither (t1,t2) nor (t2,t1) is resolved by the fresh
\* computation, whose NodeMap is what the call returns.
C4_CacheMissNeverEscapes ==
    [][ IsIdentify
        => ( /\ last'.outcome # "NotCachedError"
             /\ (cache[Slot] = NoMap /\ cache[Reverse] = NoMap)
                  => ( /\ last'.fresh_calls = 1
                       /\ last'.outcome = "ok" =>
                            /\ last'.ret # NoMap
                            /\ last'.ret =
                                 identify_graphs(graphs, last'.time1, last'.time2,
                                                 "interior").ret ) ) ]_vars

\* a lookup with use_cached that missed both slots and returned a fresh map
C4_Witness ==
    /\ last.op = "identify_graphs" /\ last.use_cached /\ last.outcome = "ok"
    /\ last.fresh_calls = 1
    /\ last.ret # NoMap

\* C5: the spatial index of every graph holds exactly the table's node
\* indices, each with the bounding box of that node's current geometry.
C5_IndexConsistentWithTable ==
    \A t \in DOMAIN graphs :
        graphs[t].rtree =
            { << i, bounds(df_row(graphs[t].df, i).geometry) >> :
                i \in df_index(graphs[t].df) }

\* C6: the table's index set equals the graph's node set, no index has two
\* rows, and the rows are in ascending index order.
C6_TableMatchesGraphAndSorted ==
    \A t \in DOMAIN graphs :
        LET df == graphs[t].df
        IN  /\ df_index(df) = DOMAIN graphs[t].nodes
            /\ \A i, j \in 1 .. Len(df) : i < j => df[i].index < df[j].index

\* a merge has put its node at a supplied index below an index that was kept
C6_Witness ==
    /\ last.op = "merge_nodes" /\ last.outcome = "ok"
    /\ last.final_index # None
    /\ \E n \in DOMAIN graphs[last.time].nodes : Get(last.new_index) < n

\* C7: the main graph has no self-loop and every edge joins two current nodes.
C7_NoSelfLoopNoDanglingEdge ==
    \A t \in DOMAIN graphs :
        \A e \in graphs[t].edges :
            Cardinality(e) = 2 /\ e \subseteq DOMAIN graphs[t].nodes

\* C8: merge_nodes called without final_index places the new node at the
\* current maximum node index + 1, never at the index of an existing node.
C8_DefaultFinalIndexIsFresh ==
    [][ (IsMerge /\ last'.final_index = None)
        => ( /\ Get(last'.new_index) = Max(DOMAIN Before.nodes) + 1
             /\ Get(last'.new_index) \notin DOMAIN Before.nodes ) ]_vars

\* C9: after a successful merge_nodes none of the indices in node_ids is in
\* the graph or the table, and exactly one new node exists, carrying the
\* supplied class_label in the graph and in the table.
C9_MergedGoneOneNewNode ==
    [][ IsMerge
        => ( /\ last'.node_list \cap DOMAIN After.nodes = {}
             /\ last'.node_list \cap df_index(After.df) = {}
             /\ \E n \in DOMAIN After.nodes :
                  /\ DOMAIN After.nodes \ DOMAIN Before.nodes = {n}
                  /\ After.nodes[n].class_label = last'.class_label
                  /\ n \in df_index(After.df)
                  /\ df_row(After.df, n).class_label = last'.class_label ) ]_vars

\* C10: a successful merge_nodes of k distinct nodes reduces the node count
\* by k-1, and the new node's neighbours are exactly the neighbours of the
\* merged nodes that are not merged themselves.
C10_MergeCountAndNeighbours ==
    [][ IsMerge
        => ( /\ Cardinality(DOMAIN After.nodes) =
                  Cardinality(DOMAIN Before.nodes) - (Cardinality(last'.node_list) - 1)
             /\ neighbors(After.edges, Get(last'.new_index)) =
                  UNION { neighbors(Before.edges, n) : n \in last'.node_list }
                    \ last'.node_list ) ]_vars

\* node_list holds an id that is not a node of g, or final_index is supplied,
\* is not in node_list and is a node of g
InvalidMergeArgs(g, node_list, final_index) ==
    \/ ~ (node_list \subseteq DOMAIN g.nodes)
    \/ /\ final_index # None
       /\ final_index \cap node_list = {}
       /\ final_index \subseteq DOMAIN g.nodes

\* C11: in every state in which a call can be made, a merge_nodes call whose
\* node_list holds an id that is not a current node, or whose supplied
\* final_index is outside node_list and names an existing node, ends with
\* ValueError and leaves graph, table, spatial index and habitats as they
\* were.
C11_InvalidMergeFailsUnchanged ==
    ncalls < MaxCalls
        => \A t \in DOMAIN graphs : \A a \in MergeArgs(NodeIds) :
             InvalidMergeArgs(graphs[t], a[1], a[3])
               => LET r == merge_nodes(graphs[t], a[1], a[2], a[3])
                  IN  r.outcome = "ValueError" /\ r.graph = graphs[t]

\* a merge_nodes call has failed on a graph that holds every id callers
\* pass, so it failed for its final_index
C11_Witness ==
    /\ last.op = "merge_nodes" /\ last.outcome = "ValueError"
    /\ NodeIds \subseteq DOMAIN graphs[last.time].nodes
    /\ graphs[last.time].habitats # << >>

\* C12: the geometry of the node a successful merge_nodes creates is the union
\* of the geometries stored under exactly the indices in node_ids, also on a
\* graph whose indices earlier merges have made sparse.
C12_MergedGeometryIsUnionOfNodeIds ==
    [][ IsMerge
        => df_row(After.df, Get(last'.new_index)).geometry =
             UNION { df_row(Before.df, n).geometry : n \in last'.node_list } ]_vars

\* C13: add_habitat(name, ...) leaves the main graph's nodes, edges and node
\* attributes and the table's columns and rows unchanged, stores a habitat
\* under name and leaves the habitats under every other name unchanged.
C13_AddHabitatFrame ==
    [][ (last'.op = "add_habitat" /\ ncalls' = ncalls + 1)
        => \A t \in DOMAIN graphs : \A a \in HabitatArgs :
          AddHabitat(t, a[1], a[2], a[3])
            => ( /\ graphs'[t].nodes = graphs[t].nodes
                 /\ graphs'[t].edges = graphs[t].edges
                 /\ graphs'[t].df = graphs[t].df
                 /\ graphs'[t].columns = graphs[t].columns
                 /\ a[1] \in DOMAIN graphs'[t].habitats
                 /\ graphs'[t].habitats[a[1]].valid_classes = a[2]
                 /\ graphs'[t].habitats[a[1]].max_travel_distance = a[3]
                 /\ \A n \in HabitatNames \ {a[1]} :
                      /\ n \in DOMAIN graphs'[t].habitats
                           <=> n \in DOMAIN graphs[t].habitats
                      /\ n \in DOMAIN graphs[t].habitats
                           => graphs'[t].habitats[n] = graphs[t].habitats[n] ) ]_vars

\* the step is the first call on a freshly constructed graph
IsFirstCall == ncalls = 0 /\ ncalls' = 1

\* C14: in a habitat built by add_habitat on a freshly constructed graph the
\* nodes are exactly the main-graph nodes whose class_label is in
\* valid_classes, every edge has distance 0 when its two polygons intersect
\* and their true distance otherwise, and no edge is longer than
\* max_travel_distance.
C14_FreshHabitatNodesAndDistances ==
    [][ (IsFirstCall /\ last'.op = "add_habitat")
        => \A t \in DOMAIN graphs : \A a \in HabitatArgs :
          AddHabitat(t, a[1], a[2], a[3])
            => /\ last'.outcome = "ok"
               /\ a[1] \in DOMAIN graphs'[t].habitats
               /\ LET h == graphs'[t].habitats[a[1]]
                      poly(n) == df_row(graphs[t].df, n).geometry
                  IN  /\ DOMAIN h.nodes =
                           { n \in DOMAIN graphs[t].nodes :
                               graphs[t].nodes[n].class_label \in a[2] }
                      /\ \A e \in h.edges :
                           /\ e.ends \subseteq DOMAIN h.nodes
                           /\ \A n, m \in e.ends : e.ends = {n, m} =>
                                /\ intersects(poly(n), poly(m)) => e.distance = 0
                                /\ ~ intersects(poly(n), poly(m))
                                     => e.distance = distance(poly(n), poly(m))
                           /\ e.distance <= a[3] ]_vars

\* the first call built a habitat that leaves out a node of the main graph
\* and joins two polygons that do not touch
C14_Witness ==
    /\ ncalls = 1 /\ last.op = "add_habitat" /\ last.outcome = "ok"
    /\ \E t \in DOMAIN graphs : \E name \in DOMAIN graphs[t].habitats :
          /\ DOMAIN graphs[t].habitats[name].nodes # DOMAIN graphs[t].nodes
          /\ \E e \in graphs[t].habitats[name].edges : e.distance > 0

\* C15: no habitat produced by add_habitat has a self-loop.
C15_HabitatHasNoSelfLoop ==
    \A t \in DOMAIN graphs : \A name \in DOMAIN graphs[t].habitats :
        \A e \in graphs[t].habitats[name].edges : Cardinality(e.ends) = 2

\* C16: the NodeMap identify_graphs(graph1, graph2, mode) returns, in every
\* mode, has exactly the node indices of graph1 at the time of the call as
\* its keys (a node without a match has the empty list) and lists only node
\* indices of graph2.
C16_IdentifyKeysAndValues ==
    (last.op = "identify_graphs" /\ last.mode \in Modes /\ last.outcome = "ok")
        => /\ last.ret.src = last.time1 /\ last.ret.trg = last.time2
           /\ DOMAIN last.ret.mapping = df_index(graphs[last.time1].df)
           /\ \A s \in DOMAIN last.ret.mapping :
                elems(last.ret.mapping[s]) \subseteq df_index(graphs[last.time2].df)

\* identify_graphs in mode "corner" has returned a map from a graph whose
\* indices a merge has made sparse, with a node that has no match and a
\* node that has one
C16_Witness ==
    /\ last.op = "identify_graphs" /\ last.mode = "corner" /\ last.outcome = "ok"
    /\ 0 \notin df_index(graphs[last.time1].df)
    /\ \E s \in DOMAIN last.ret.mapping : last.ret.mapping[s] = << >>
    /\ \E s \in DOMAIN last.ret.mapping : last.ret.mapping[s] # << >>

\* the maps have the same graphs, the same keys and, for every key, the same
\* targets as a set
SameMap(m, n) ==
    /\ m.src = n.src /\ m.trg = n.trg
    /\ DOMAIN m.mapping = DOMAIN n.mapping
    /\ \A s \in DOMAIN m.mapping : elems(m.mapping[s]) = elems(n.mapping[s])

\* C17: for a NodeMap M derived by identification between two graphs,
\* invert(invert(M)) equals M.
C17_InvertInvertIsIdentity ==
    last.op = "invert_invert"
        => (last.outcome = "ok" /\ SameMap(last.ret, last.arg))

\* C18: invert() returns a NodeMap with src and trg swapped whose keys are
\* exactly the node indices of trg_graph and in which t lists s if and only
\* if s lists t in the original mapping, and leaves the original unchanged.
C18_InvertSwapsAndReverses ==
    last.op = "invert"
        => /\ last.outcome = "ok"
           /\ held = last.arg
           /\ last.ret.src = last.arg.trg /\ last.ret.trg = last.arg.src
           /\ DOMAIN last.ret.mapping = df_index(graphs[last.arg.trg].df)
           /\ Pairs(last.ret) = Converse(Pairs(last.arg))

\* the polygons meet, but no two of their squares overlap or share a side
SharesOnlyCorner(a, b) ==
    /\ \E p \in a, q \in b : Abs(p[1] - q[1]) <= 1 /\ Abs(p[2] - q[2]) <= 1
    /\ \A p \in a, q \in b : Abs(p[1] - q[1]) + Abs(p[2] - q[2]) > 1

\* C19: the ids identify_node returns all have the node's class_label; what
\* it returns in mode "interior" it also returns in mode "edge", and what it
\* returns in mode "edge" also in mode "corner"; a polygon of the node's
\* class that shares only a corner point with the node is returned in mode
\* "corner" and in no other mode.
C19_IdentifyNodeLabelAndModes ==
    (last.op = "identify_node" /\ last.outcome = "ok")
        => LET row == df_row(graphs[last.time1].df, Get(last.node))
               other == graphs[last.time2]
               ids(m) == elems(identify_node(row, other, m).ids)
           IN  /\ \A c \in elems(last.ids) :
                    df_row(other.df, c).class_label = row.class_label
               /\ last.mode = "interior" => elems(last.ids) \subseteq ids("edge")
               /\ last.mode = "edge" => elems(last.ids) \subseteq ids("corner")
               /\ \A c \in df_index(other.df) :
                    ( /\ << c, bounds(df_row(other.df, c).geometry) >> \in other.rtree
                      /\ df_row(other.df, c).class_label = row.class_label
                      /\ SharesOnlyCorner(row.geometry, df_row(other.df, c).geometry) )
                      => (c \in elems(last.ids) <=> last.mode = "corner")

\* identify_node in mode "corner" has returned a polygon that shares only a
\* corner point with the node
C19_Witness ==
    /\ last.op = "identify_node" /\ last.outcome = "ok" /\ last.mode = "corner"
    /\ \E c \in elems(last.ids) :
          SharesOnlyCorner(df_row(graphs[last.time1].df, Get(last.node)).geometry,
                           df_row(graphs[last.time2].df, c).geometry)

\* the i-th smallest element of a set of timestamps
IthSmallest(S, i) == CHOOSE t \in S : Cardinality({ u \in S : u < t }) = i - 1

SequentialMap(time1, time2) == identify_graphs(graphs, time1, time2, "interior").ret

\* C21: whenever two threads have both returned from identify_graphs calls
\* for the same (t1, t2) on a timeline nothing mutates, however their
\* lookups, computations and stores interleaved, neither call raised, the
\* two returned NodeMaps are equal, and the cache entry of (t1, t2) is the
\* NodeMap a single call on its own would have stored.
C21_InterleavedRequestsAgree ==
    \A p, q \in Procs :
        ( /\ p # q
          /\ requests[p].pc = "done" /\ requests[q].pc = "done"
          /\ requests[p].time1 = requests[q].time1
          /\ requests[p].time2 = requests[q].time2 )
        => /\ requests[p].outcome = "ok" /\ requests[q].outcome = "ok"
           /\ requests[p].ret = requests[q].ret
           /\ cache[<< requests[p].time1, requests[p].time2 >>]
                = SequentialMap(requests[p].time1, requests[p].time2)
           /\ requests[p].ret = SequentialMap(requests[p].time1, requests[p].time2)

\* two calls for (1, 2) overlapped, one took the inverse of the cached
\* (2, 1) map and the other computed afresh, and both have returned
C21_Witness ==
    /\ requests[1].pc = "done" /\ requests[2].pc = "done"
    /\ requests[1].raced /\ requests[2].raced
    /\ requests[1].time1 = 1 /\ requests[1].time2 = 2
    /\ requests[2].time1 = 1 /\ requests[2].time2 = 2
    /\ requests[1].use_cached /\ ~requests[2].use_cached
    /\ cache[<< 2, 1 >>] # NoMap
    /\ \E s \in DOMAIN requests[1].ret.mapping : requests[1].ret.mapping[s] # << >>

\* the step before was a GeoGraph(data, tolerance) call
Constructed == last.op = "GeoGraph"

\* C22: a graph constructed with tolerance 0 from a table of n rows has
\* exactly the nodes 0..n-1 whatever identifiers the rows came with; two
\* distinct nodes are joined by an edge exactly when the polygons of their
\* rows intersect; every edge joins two distinct nodes of the graph (the
\* edges are unordered, so adjacency is symmetric); and two unit squares
\* sharing a full edge give exactly one edge.
C22_DenseNodesAndIntersectionEdges ==
    (Constructed /\ last.outcome = "ok" /\ last.tolerance = 0) =>
        LET g == graphs[1]
            rows == last.data.rows
            n == Len(rows)
        IN  /\ DOMAIN g.nodes = 0 .. n - 1
            /\ df_index(g.df) = 0 .. n - 1
            /\ \A i, j \in 0 .. n - 1 :
                  i # j => ( {i, j} \in g.edges
                               <=> intersects(rows[i + 1].geometry, rows[j + 1].geometry) )
            /\ \A e \in g.edges : Cardinality(e) = 2 /\ e \subseteq 0 .. n - 1
            /\ \A i \in 0 .. n - 1 : i \notin neighbors(g.edges, i)
            /\ ( /\ n = 2
                 /\ \E x \in 0 .. GridW - 2 :
                       { rows[1].geometry, rows[2].geometry }
                           = { { << x, 0 >> }, { << x + 1, 0 >> } } )
               => Cardinality(g.edges) = 1

\* two unit squares sharing a full edge, in a table whose rows are
\* identified 1 and 2, became the nodes 0 and 1 joined by one edge
C22_Witness ==
    /\ Constructed /\ last.outcome = "ok" /\ last.tolerance = 0
    /\ Len(last.data.rows) = 2
    /\ last.data.rows[1].index = 1 /\ last.data.rows[2].index = 2
    /\ last.data.rows[1].geometry = { << 0, 0 >> }
    /\ last.data.rows[2].geometry = { << 1, 0 >> }
    /\ graphs[1].edges = { {0, 1} }

\* C23: a construction from a table without the geometry column, without
\* the class_label column, or with a negative tolerance ends with
\* ValueError, and the graph then has no node, no edge, no table row and no
\* spatial index entry.
C23_InvalidConstructionRejectedEmpty ==
    Constructed =>
        /\ ( \/ "geometry" \notin last.data.columns
             \/ "class_label" \notin last.data.columns
             \/ last.tolerance < 0 ) => last.outcome = "ValueError"
        /\ last.outcome = "ValueError" =>
              /\ DOMAIN graphs[1].nodes = {}
              /\ graphs[1].edges = {}
              /\ graphs[1].rtree = {}
              /\ graphs[1].df = << >>

\* a table of two rows with both columns was rejected for its negative
\* tolerance
C23_Witness ==
    /\ Constructed /\ last.outcome = "ValueError"
    /\ last.data.columns = BaseColumns /\ last.tolerance < 0
    /\ Len(last.data.rows) = 2
    /\ DOMAIN graphs[1].nodes = {}

\* C24: whenever get_graph_components(graph) has been called on the main
\* graph or on a habitat, after any merge_nodes calls, it returned; the
\* returned node sets are non-empty, pairwise disjoint, cover the node set
\* of the supplied graph, and each is connected and joined by no edge to a
\* node outside it; and the table has one row per component, whose
\* geometry is the union of the geometries the attribute table stores under
\* the component's node indices.
C24_ComponentsPartitionWithUnionGeometry ==
    last.op = "get_graph_components" =>
        LET g == graphs[last.time]
            graph == supplied_graph(g, last.graph_name)
            comps == { r.component : r \in last.components }
        IN  /\ last.outcome = "ok"
            /\ UNION comps = graph.nodes
            /\ \A c \in comps : c # {}
            /\ \A c, d \in comps : c # d => c \cap d = {}
            /\ \A c \in comps : \A e \in graph.edges : e \cap c # {} => e \subseteq c
            /\ \A c \in comps : \A S \in SUBSET c :
                  (S # {} /\ S # c) => \E e \in graph.edges : e \cap S # {} /\ e \ S # {}
            /\ Cardinality(last.components) = Cardinality(comps)
            /\ \A r \in last.components :
                  /\ r.component \subseteq df_index(g.df)
                  /\ r.geometry
                       = unary_union({ df_row(g.df, n).geometry : n \in r.component })

\* C25: a successful merge_nodes leaves every node outside node_ids with the
\* same table row and the same graph attributes, and changes no edge
\* between two nodes outside node_ids: each that existed still exists and
\* none is added.
C25_MergeFrame ==
    [][ IsMerge
        => LET outside == DOMAIN Before.nodes \ last'.node_list
           IN  /\ \A n \in outside :
                     /\ n \in DOMAIN After.nodes
                     /\ After.nodes[n] = Before.nodes[n]
                     /\ n \in df_index(After.df)
                     /\ df_row(After.df, n) = df_row(Before.df, n)
               /\ \A e \in SUBSET outside :
                     e \in Before.edges <=> e \in After.edges ]_vars

\* C26: after any add_habitat and merge_nodes calls, every node of every
\* stored habitat is a node of the main graph whose class_label is one of
\* the habitat's valid classes, and the add_habitat call just made did not
\* raise.
C26_HabitatsFollowMainGraph ==
    LET g == graphs[1]
    IN  /\ \A name \in DOMAIN g.habitats :
              \A n \in DOMAIN g.habitats[name].nodes :
                  /\ n \in DOMAIN g.nodes
                  /\ g.nodes[n].class_label \in g.habitats[name].valid_classes
        /\ last.op = "add_habitat" => last.outcome = "ok"

\* C27: for a NodeMap that identify_graphs returned and a caller still
\* holds, a merge_nodes call on either of its graphs changes nothing about
\* invert(): after the call invert() still completes without error and
\* gives the result it gave before the call.
C27_InvertUnaffectedByMerge ==
    [][ (last'.op = "merge_nodes" /\ ncalls' = ncalls + 1 /\ held # NoMap)
        => /\ invert(graphs', held).outcome = "ok"
           /\ invert(graphs', held) = invert(graphs, held) ]_vars

====
